---- MODULE Spec2Model ----
(***************************************************************************)
(* A model of rasn's format-agnostic decode contract (src/src/de.rs), of   *)
(* the bit-packed encoder (src/src/per/enc.rs, src/src/per/enc/error.rs)   *)
(* and of the bit-packed entry points (src/src/uper.rs).                   *)
(*                                                                         *)
(* The blanket Decode implementations are translated from de.rs.  They run *)
(* against a Decoder engine of which de.rs holds only the trait; the       *)
(* engine here is a cursor over a sequence of tagged elements.             *)
(***************************************************************************)
EXTENDS Integers, Sequences, FiniteSets, TLC

VARIABLES
    ptrBits,   \* target_pointer_width of the build (width of isize / usize)
    dec,       \* the Decoder: [input, pos]
    res,       \* outcome of the last decode call, with the call's arguments
    output,    \* per::enc::Encoder.output, a sequence of bits
    calls,     \* history of the value-producing encoder calls, in call order
    eres       \* outcome of the last encoder / entry-point call

vars == <<ptrBits, dec, res, output, calls, eres>>

decVars == <<ptrBits, dec, res>>
encVars == <<output, calls, eres>>

---------------------------------------------------------------------------
(* Bounds of the model.                                                    *)

\* longest top-level input made of leaf elements
MaxLen == 2
\* most members inside a SEQUENCE element
MaxKids == 2
\* most octets in the contents of an Any
MaxContents == 2
\* most value-producing calls made on one Encoder
MaxCalls == 3

---------------------------------------------------------------------------
(* Results: Ok(v) / Err(e).                                                *)

VUnit == [k |-> "unit"]

Ok(v) == [ok |-> TRUE, v |-> v, e |-> ""]
Err(e) == [ok |-> FALSE, v |-> VUnit, e |-> e]

\* Result::map(f) for a one-field wrapper named k
MapOk(r, k) == IF r.ok THEN Ok([k |-> k, v |-> r.v]) ELSE r

---------------------------------------------------------------------------
(* Tags.                                                                   *)

Tag(c, n) == [class |-> c, number |-> n]

TagBool == Tag("Universal", 1)
TagInteger == Tag("Universal", 2)
TagBitString == Tag("Universal", 3)
TagOctetString == Tag("Universal", 4)
TagNull == Tag("Universal", 5)
TagOid == Tag("Universal", 6)
TagUtf8 == Tag("Universal", 12)
TagSequence == Tag("Universal", 16)
TagUtcTime == Tag("Universal", 23)
TagGeneralizedTime == Tag("Universal", 24)
TagCtx0 == Tag("ContextSpecific", 0)

---------------------------------------------------------------------------
(* types::Integer: an arbitrary-precision integer, sign and magnitude.     *)
(* The magnitude is its binary digits, most significant first, without a   *)
(* leading zero; zero is the empty magnitude.                              *)

BigInt(neg, mag) == [neg |-> neg, mag |-> mag]

Ones(k) == [i \in 1..k |-> 1]
Pow2(k) == <<1>> \o [i \in 1..k |-> 0]
Pow2Plus1(k) == <<1>> \o [i \in 1..(k - 1) |-> 0] \o <<1>>

Zero == BigInt(FALSE, <<>>)

MagLt(a, b) ==
    \/ Len(a) < Len(b)
    \/ /\ Len(a) = Len(b)
       /\ \E i \in 1..Len(a) :
            /\ a[i] < b[i]
            /\ \A j \in 1..(i - 1) : a[j] = b[j]

MagLe(a, b) == a = b \/ MagLt(a, b)

IntLe(x, y) ==
    CASE x.neg /\ ~y.neg -> TRUE
      [] ~x.neg /\ y.neg -> FALSE
      [] ~x.neg /\ ~y.neg -> MagLe(x.mag, y.mag)
      [] OTHER -> MagLe(y.mag, x.mag)

IntTypes ==
    {"i8", "i16", "i32", "i64", "i128", "isize",
     "u8", "u16", "u32", "u64", "u128", "usize"}

Signed(ty) == ty \in {"i8", "i16", "i32", "i64", "i128", "isize"}

Bits(ty) ==
    CASE ty \in {"i8", "u8"} -> 8
      [] ty \in {"i16", "u16"} -> 16
      [] ty \in {"i32", "u32"} -> 32
      [] ty \in {"i64", "u64"} -> 64
      [] ty \in {"i128", "u128"} -> 128
      [] OTHER -> ptrBits

IntMin(ty) == IF Signed(ty) THEN BigInt(TRUE, Pow2(Bits(ty) - 1)) ELSE Zero
IntMax(ty) == BigInt(FALSE, Ones(IF Signed(ty) THEN Bits(ty) - 1 ELSE Bits(ty)))

InRange(n, ty) == IntLe(IntMin(ty), n) /\ IntLe(n, IntMax(ty))

\* a value of the primitive integer type ty
VPrimInt(ty, n) == [k |-> ty, n |-> n]

TryIntoWrapping(n, ty) == Ok(VPrimInt(ty, n))

\* core::convert::TryInto::<$int>::try_into(Integer)
TryInto(n, ty) ==
    IF InRange(n, ty) THEN Ok(VPrimInt(ty, n)) ELSE Err("TryFromBigIntError")

\* de::Error::custom(msg) of the engine's error type
ErrorCustom(msg) == Err("custom")

\* Result::map_err(Error::custom)
MapErrCustom(r) == IF r.ok THEN r ELSE ErrorCustom(r.e)

---------------------------------------------------------------------------
(* The Decoder engine (trait de::Decoder).  The input is a sequence of     *)
(* elements; an element carries its tag, the kind of value its content     *)
(* encodes, whether that content is well formed, the content itself and,   *)
(* for a SEQUENCE, its members.  pos counts the elements consumed.         *)

Elem(tag, kind, wf, n, kids) ==
    [tag |-> tag, kind |-> kind, wf |-> wf, n |-> n, kids |-> kids]

AtEnd(d) == d.pos >= Len(d.input)
Cur(d) == d.input[d.pos + 1]
Advance(d) == [d EXCEPT !.pos = @ + 1]

VTag(t) == [k |-> "tag", t |-> t]
VBool(b) == [k |-> "bool", b |-> b]
VInt(n) == [k |-> "int", n |-> n]

LeafValue(kind, e) ==
    CASE kind = "bool" -> VBool(e.n # Zero)
      [] kind = "int" -> VInt(e.n)
      [] kind = "null" -> VUnit
      [] OTHER -> [k |-> kind, n |-> e.n]

\* fn peek_tag(&self): reads, never consumes
peek_tag(d) == IF AtEnd(d) THEN Err("eof") ELSE Ok(VTag(Cur(d).tag))

\* the shape shared by every leaf primitive decode_X(&mut self, tag); a read
\* that fails leaves the cursor where it was
decode_leaf(d, kind, tag) ==
    IF AtEnd(d) THEN [r |-> Err("eof"), d |-> d]
    ELSE IF Cur(d).tag # tag THEN [r |-> Err("tag"), d |-> d]
    ELSE IF Cur(d).kind # kind \/ ~Cur(d).wf THEN [r |-> Err("malformed"), d |-> d]
    ELSE [r |-> Ok(LeafValue(kind, Cur(d))), d |-> Advance(d)]

decode_null(d, tag) == decode_leaf(d, "null", tag)
decode_bool(d, tag) == decode_leaf(d, "bool", tag)
decode_integer(d, tag) == decode_leaf(d, "int", tag)
decode_octet_string(d, tag) == decode_leaf(d, "octets", tag)
decode_object_identifier(d, tag) == decode_leaf(d, "oid", tag)
decode_bit_string(d, tag) == decode_leaf(d, "bits", tag)
decode_utf8_string(d, tag) == decode_leaf(d, "utf8", tag)
decode_utc_time(d, tag) == decode_leaf(d, "utc", tag)
decode_generalized_time(d, tag) == decode_leaf(d, "gen", tag)
decode_sequence_of(d, tag) == decode_leaf(d, "seqof", tag)
decode_explicit_prefix(d, tag) == decode_leaf(d, "explicit", tag)

\* fn decode_any(&mut self, tag): the undecoded span of the next element
decode_any(d, tag) ==
    IF AtEnd(d) THEN [r |-> Err("eof"), d |-> d]
    ELSE IF Cur(d).tag # tag THEN [r |-> Err("tag"), d |-> d]
    ELSE IF ~Cur(d).wf THEN [r |-> Err("malformed"), d |-> d]
    ELSE [r |-> Ok([k |-> "any", raw |-> Cur(d)]), d |-> Advance(d)]

\* fn decode_sequence(&mut self, tag) -> Result<Self, _>: a new Decoder over
\* exactly the members of the SEQUENCE; sub is meaningful only on success
decode_sequence(d, tag) ==
    IF AtEnd(d) THEN [r |-> Err("eof"), d |-> d, sub |-> d]
    ELSE IF Cur(d).tag # tag THEN [r |-> Err("tag"), d |-> d, sub |-> d]
    ELSE IF Cur(d).kind # "seq" \/ ~Cur(d).wf
         THEN [r |-> Err("malformed"), d |-> d, sub |-> d]
    ELSE [r |-> Ok(VUnit), d |-> Advance(d),
          sub |-> [input |-> Cur(d).kids, pos |-> 0]]

---------------------------------------------------------------------------
(* types::Open and the preservation map.                                   *)

VOpen(tag, raw) == [k |-> "open", tag |-> tag, raw |-> raw]

\* <types::Open as Decode>::decode: the tag is discovered on the wire
OpenDecode(d) ==
    LET p == peek_tag(d) IN
    IF ~p.ok THEN [r |-> p, d |-> d]
    ELSE LET a == decode_any(d, p.v.t) IN
         IF ~a.r.ok THEN a
         ELSE [r |-> Ok(VOpen(p.v.t, a.r.v.raw)), d |-> a.d]

EmptyMap == [t \in {} |-> VUnit]

\* BTreeMap::insert: a later value replaces an earlier one under the same key
MapInsert(m, key, value) ==
    [t \in DOMAIN m \cup {key} |-> IF t = key THEN value ELSE m[t]]

VMap(m) == [k |-> "map", m |-> m]

---------------------------------------------------------------------------
(* The blanket Decode implementations of de.rs.  Each takes the decoder    *)
(* and the tag and yields the result and the decoder afterwards.           *)

\* impl Decode for ()
DecodeUnit(d, tag) == decode_null(d, tag)

\* impl Decode for bool
DecodeBool(d, tag) == decode_bool(d, tag)

DecodeIntLenient(ty, d, tag) ==
    LET x == decode_integer(d, tag) IN
    IF ~x.r.ok THEN [r |-> Ok(VPrimInt(ty, Zero)), d |-> x.d]
    ELSE [r |-> MapErrCustom(TryInto(x.r.v.n, ty)), d |-> x.d]

\* impl_integers!: impl Decode for $int
DecodeInt(ty, d, tag) ==
    LET x == decode_integer(d, tag) IN
    IF ~x.r.ok THEN x
    ELSE [r |-> MapErrCustom(TryInto(x.r.v.n, ty)), d |-> x.d]

\* impl Decode for types::Integer
DecodeInteger(d, tag) == decode_integer(d, tag)

\* impl Decode for types::OctetString
DecodeOctetString(d, tag) ==
    LET x == decode_octet_string(d, tag) IN [r |-> MapOk(x.r, "OctetString"), d |-> x.d]

\* impl Decode for types::ObjectIdentifier
DecodeObjectIdentifier(d, tag) == decode_object_identifier(d, tag)

\* impl Decode for types::BitString
DecodeBitString(d, tag) == decode_bit_string(d, tag)

\* impl Decode for types::Utf8String
DecodeUtf8String(d, tag) == decode_utf8_string(d, tag)

\* impl Decode for types::UtcTime
DecodeUtcTime(d, tag) == decode_utc_time(d, tag)

\* impl Decode for types::GeneralizedTime
DecodeGeneralizedTime(d, tag) == decode_generalized_time(d, tag)

\* impl Decode for Vec<T>
DecodeVec(d, tag) == decode_sequence_of(d, tag)

\* impl Decode for types::Explicit<T, V>
DecodeExplicit(d, tag) ==
    LET x == decode_explicit_prefix(d, tag) IN [r |-> MapOk(x.r, "Explicit"), d |-> x.d]

RECURSIVE MapLoop(_, _)
\* while let Ok(value) = <types::Open>::decode(&mut decoder) { map.insert(..) }
MapLoop(sub, map) ==
    LET x == OpenDecode(sub) IN
    IF x.r.ok THEN MapLoop(x.d, MapInsert(map, x.r.v.tag, x.r.v)) ELSE map

DecodeMapFailFast(d, tag) ==
    LET s == decode_sequence(d, tag) IN
    IF ~s.r.ok THEN [r |-> s.r, d |-> s.d]
    ELSE LET m == MapLoop(s.sub, EmptyMap) IN
         IF Cardinality(DOMAIN m) < Len(s.sub.input)
         THEN [r |-> Err("malformed"), d |-> s.d]
         ELSE [r |-> Ok(VMap(m)), d |-> s.d]

\* impl Decode for BTreeMap<Tag, types::Open>
DecodeMap(d, tag) ==
    LET s == decode_sequence(d, tag) IN
    IF ~s.r.ok THEN [r |-> s.r, d |-> s.d]
    ELSE [r |-> Ok(VMap(MapLoop(s.sub, EmptyMap))), d |-> s.d]

BaseTypes ==
    IntTypes \cup
    {"unit", "bool", "Integer", "OctetString", "ObjectIdentifier", "BitString",
     "Utf8String", "UtcTime", "GeneralizedTime", "Vec", "Explicit", "Map"}

\* T::decode_with_tag for a type that is not a wrapper
DecodeBase(base, d, tag) ==
    CASE base = "unit" -> DecodeUnit(d, tag)
      [] base = "bool" -> DecodeBool(d, tag)
      [] base = "Integer" -> DecodeInteger(d, tag)
      [] base = "OctetString" -> DecodeOctetString(d, tag)
      [] base = "ObjectIdentifier" -> DecodeObjectIdentifier(d, tag)
      [] base = "BitString" -> DecodeBitString(d, tag)
      [] base = "Utf8String" -> DecodeUtf8String(d, tag)
      [] base = "UtcTime" -> DecodeUtcTime(d, tag)
      [] base = "GeneralizedTime" -> DecodeGeneralizedTime(d, tag)
      [] base = "Vec" -> DecodeVec(d, tag)
      [] base = "Explicit" -> DecodeExplicit(d, tag)
      [] base = "Map" -> DecodeMap(d, tag)
      [] OTHER -> DecodeInt(base, d, tag)

VNone == [k |-> "none"]
VSome(v) == [k |-> "some", v |-> v]

DecodeOptionConsuming(base, d, tag) ==
    LET x == DecodeBase(base, d, tag) IN
    IF x.r.ok THEN [r |-> Ok(VSome(x.r.v)), d |-> x.d]
    ELSE [r |-> Ok(VNone), d |-> IF AtEnd(d) THEN d ELSE Advance(d)]

\* impl<D: Decode> Decode for Option<D>
DecodeOption(base, d, tag) ==
    LET p == peek_tag(d) IN
    IF (IF p.ok THEN p.v.t = tag ELSE FALSE)
    THEN LET x == DecodeBase(base, d, tag) IN
         [r |-> IF x.r.ok THEN Ok(VSome(x.r.v)) ELSE x.r, d |-> x.d]
    ELSE [r |-> Ok(VNone), d |-> d]

\* impl Decode for types::Implicit<T, V>
DecodeImplicit(base, d, tag) ==
    LET x == DecodeBase(base, d, tag) IN [r |-> MapOk(x.r, "Implicit"), d |-> x.d]

\* a decode target: a base type, bare or inside one wrapper
Ty(wrap, base) == [wrap |-> wrap, base |-> base]

\* Decode::decode_with_tag
DecodeWithTag(ty, d, tag) ==
    CASE ty.wrap = "Option" -> DecodeOption(ty.base, d, tag)
      [] ty.wrap = "Implicit" -> DecodeImplicit(ty.base, d, tag)
      [] OTHER -> DecodeBase(ty.base, d, tag)

\* AsnType::TAG
DefaultTag(ty) ==
    CASE ty.wrap = "Implicit" -> TagCtx0
      [] ty.base = "unit" -> TagNull
      [] ty.base = "bool" -> TagBool
      [] ty.base = "OctetString" -> TagOctetString
      [] ty.base = "ObjectIdentifier" -> TagOid
      [] ty.base = "BitString" -> TagBitString
      [] ty.base = "Utf8String" -> TagUtf8
      [] ty.base = "UtcTime" -> TagUtcTime
      [] ty.base = "GeneralizedTime" -> TagGeneralizedTime
      [] ty.base \in {"Vec", "Map", "Explicit"} -> TagSequence
      [] OTHER -> TagInteger

\* Decode::decode: the default forwards the type's own tag
Decode(ty, d) == DecodeWithTag(ty, d, DefaultTag(ty))

---------------------------------------------------------------------------
(* Inputs of the decode side.                                              *)

SeqsUpTo(S, n) == UNION {[1..k -> S] : k \in 0..n}

One == BigInt(FALSE, <<1>>)
Five == BigInt(FALSE, <<1, 0, 1>>)
ThreeHundred == BigInt(FALSE, <<1, 0, 0, 1, 0, 1, 1, 0, 0>>)

LBool == Elem(TagBool, "bool", TRUE, One, <<>>)
LInt5 == Elem(TagInteger, "int", TRUE, Five, <<>>)
LInt300 == Elem(TagInteger, "int", TRUE, ThreeHundred, <<>>)
LCtxNeg == Elem(TagCtx0, "int", TRUE, BigInt(TRUE, <<1>>), <<>>)
LBad == Elem(TagInteger, "int", FALSE, Zero, <<>>)
LNull == Elem(TagNull, "null", TRUE, Zero, <<>>)
LOctets == Elem(TagOctetString, "octets", TRUE, Five, <<>>)

Leaves == {LBool, LInt5, LInt300, LCtxNeg, LBad, LNull, LOctets}

\* a SEQUENCE element, followed or not by one more field
SeqInputs ==
    {<<Elem(t, "seq", TRUE, Zero, kids)>> \o tail :
        t \in {TagSequence, TagCtx0},
        kids \in SeqsUpTo(Leaves, MaxKids),
        tail \in {<<>>, <<LBool>>}}
    \cup {<<Elem(TagSequence, "seq", FALSE, Zero, <<>>)>>}

Inputs == SeqsUpTo(Leaves, MaxLen) \cup SeqInputs

\* magnitudes around every power of two that bounds an integer type
EdgeBits == {7, 8, 15, 16, 31, 32, 63, 64, 127, 128}
EdgeMags ==
    {<<>>, <<1>>, ThreeHundred.mag}
    \cup {Ones(k) : k \in EdgeBits}
    \cup {Pow2(k) : k \in EdgeBits}
    \cup {Pow2Plus1(k) : k \in EdgeBits}
IntValues == {BigInt(neg, mag) : neg \in BOOLEAN, mag \in EdgeMags} \ {BigInt(TRUE, <<>>)}

PtrWidths == {16, 32, 64}

\* Encoder::new(): an empty output
NewOutput == <<>>

NoCall == [op |-> "none", kind |-> "ok", len0 |-> 0, tag |-> TagNull, b |-> FALSE,
           contents |-> <<>>]

EncIdle == output = NewOutput /\ calls = <<>> /\ eres = NoCall

NoDecode ==
    [op |-> "none", ty |-> Ty("none", "unit"), tag |-> TagNull, pos0 |-> 0, r |-> Ok(VUnit)]

\* a Decoder freshly built over an input; no type decoded here is pointer-wide
InitDe ==
    /\ ptrBits = 64
    /\ \E in \in Inputs : dec = [input |-> in, pos |-> 0]
    /\ res = NoDecode
    /\ EncIdle

\* a Decoder over one INTEGER element holding n
InitInt ==
    /\ ptrBits \in PtrWidths
    /\ \E n \in IntValues, t \in {TagInteger, TagCtx0} :
          dec = [input |-> <<Elem(t, "int", TRUE, n, <<>>)>>, pos |-> 0]
    /\ res = NoDecode
    /\ EncIdle

---------------------------------------------------------------------------
(* Decode calls.                                                           *)

\* T::decode_with_tag(&mut decoder, tag) made by a caller
DecodeCall(ty, tag) ==
    /\ LET x == DecodeWithTag(ty, dec, tag) IN
         /\ dec' = x.d
         /\ res' = [op |-> "decode", ty |-> ty, tag |-> tag, pos0 |-> dec.pos, r |-> x.r]
    /\ UNCHANGED <<ptrBits, encVars>>

\* the tags a caller passes: the type's own (Decode::decode) or a context tag
CallTags(ty) == {DefaultTag(ty), TagCtx0}

LeafBases == BaseTypes \ (IntTypes \cup {"Map"})
DeIntTypes == {"u8", "i16"}
OptionBases == {"bool", "unit", "u8", "Integer", "OctetString", "Map"}
ImplicitBases == {"bool", "u8"}

CallLeaf == \E b \in LeafBases : \E t \in CallTags(Ty("none", b)) : DecodeCall(Ty("none", b), t)
CallInt == \E b \in DeIntTypes : \E t \in CallTags(Ty("none", b)) : DecodeCall(Ty("none", b), t)
CallAnyInt == \E b \in IntTypes : \E t \in CallTags(Ty("none", b)) : DecodeCall(Ty("none", b), t)
CallMap == \E t \in CallTags(Ty("none", "Map")) : DecodeCall(Ty("none", "Map"), t)
CallOption ==
    \E b \in OptionBases : \E t \in CallTags(Ty("Option", b)) : DecodeCall(Ty("Option", b), t)
CallImplicit ==
    \E b \in ImplicitBases : \E t \in CallTags(Ty("Implicit", b)) : DecodeCall(Ty("Implicit", b), t)

NextDe == CallLeaf \/ CallInt \/ CallMap \/ CallOption \/ CallImplicit
SpecDe == InitDe /\ [][NextDe]_vars

NextInt == CallAnyInt
SpecInt == InitInt /\ [][NextInt]_vars

---------------------------------------------------------------------------
(* Properties of the decode side.  d0 is the decoder as the last call      *)
(* found it: the input never changes, and res keeps the position.          *)

d0 == [input |-> dec.input, pos |-> res.pos0]

IsCall(wrap) == res.op = "decode" /\ res.ty.wrap = wrap

TagMatches == LET p == peek_tag(d0) IN IF p.ok THEN p.v.t = res.tag ELSE FALSE

\* T::decode_with_tag run on the decoder the Option call found
Inner == DecodeBase(res.ty.base, d0, res.tag)

\* the elements not yet consumed
Remaining(d) == SubSeq(d.input, d.pos + 1, Len(d.input))

\* C1 as stated: whenever the peeked tag equals the tag the result is present
\* and holds the value of T::decode_with_tag; otherwise the result is Ok(None)
\* and the read position and the remaining input are as before.
C1_PresentWheneverTagMatches ==
    IsCall("Option") =>
        IF TagMatches
        THEN res.r.ok /\ res.r.v = VSome(Inner.r.v)
        ELSE res.r = Ok(VNone) /\ dec.pos = res.pos0 /\ Remaining(dec) = Remaining(d0)

\* C1 amended: when the peeked tag equals the tag, the call is
\* T::decode_with_tag with a success wrapped in Some and an error returned as
\* it is; otherwise (another tag, or peek_tag failing) the result is Ok(None)
\* and the read position and the remaining input are as before, so the next
\* field is decoded from the position the optional field was tried at.
C1_OptionDecode ==
    IsCall("Option") =>
        IF TagMatches
        THEN /\ Inner.r.ok => res.r = Ok(VSome(Inner.r.v))
             /\ ~Inner.r.ok => res.r = Inner.r
             /\ dec = Inner.d
        ELSE /\ res.r = Ok(VNone)
             /\ dec.pos = res.pos0
             /\ Remaining(dec) = Remaining(d0)
             /\ \A t \in {TagBool, TagCtx0} : decode_bool(dec, t) = decode_bool(d0, t)

\* an absent optional integer in front of a boolean that is still to be read
C1_Witness ==
    /\ IsCall("Option") /\ res.ty.base = "u8"
    /\ res.r = Ok(VNone)
    /\ ~AtEnd(dec) /\ Cur(dec) = LBool
    /\ decode_bool(dec, TagBool).r = Ok(VBool(TRUE))

\* the range of a primitive integer type, by the length of the magnitude
Fits(n, ty) ==
    IF Signed(ty)
    THEN Len(n.mag) < Bits(ty) \/ (n.neg /\ n.mag = Pow2(Bits(ty) - 1))
    ELSE ~n.neg /\ Len(n.mag) <= Bits(ty)

IsIntCall == IsCall("none") /\ res.ty.base \in IntTypes

\* the unconstrained integer the engine hands to the narrowing
Engine == decode_integer(d0, res.tag)

\* C3: when the engine yields the integer n, the decode of a primitive integer
\* type is Ok(n), the same number, if n lies in the type's range, and the
\* error made by Error::custom if it does not; never another value.
C3_Narrowing ==
    (IsIntCall /\ Engine.r.ok) =>
        LET n == Engine.r.v.n IN
        IF Fits(n, res.ty.base)
        THEN res.r = Ok(VPrimInt(res.ty.base, n))
        ELSE ~res.r.ok /\ res.r = ErrorCustom("out of range")

\* 300 decoded as u8 is refused
C3_Witness ==
    /\ IsIntCall /\ res.ty.base = "u8" /\ Engine.r.ok
    /\ Engine.r.v.n = ThreeHundred
    /\ ~res.r.ok

---------------------------------------------------------------------------
(* The preservation map.                                                   *)

IsMapCall == IsCall("none") /\ res.ty.base = "Map"

\* the members of the entered SEQUENCE
Members == IF AtEnd(d0) THEN <<>> ELSE Cur(d0).kids

\* how many members the loop decodes: those in front of the first one that
\* cannot be decoded as an open value
DecodedCount ==
    IF \E i \in 1..Len(Members) : ~Members[i].wf
    THEN (CHOOSE i \in 1..Len(Members) :
            ~Members[i].wf /\ \A j \in 1..(i - 1) : Members[j].wf) - 1
    ELSE Len(Members)

Entered == decode_sequence(d0, res.tag).r.ok

\* C6 as stated: every member decoded from the scope is in the returned map
\* under its own tag, and the map holds as many members as were decoded.
C6_EveryMemberRetained ==
    (IsMapCall /\ Entered) =>
        /\ res.r.ok
        /\ \A i \in 1..DecodedCount :
              /\ Members[i].tag \in DOMAIN res.r.v.m
              /\ res.r.v.m[Members[i].tag] = VOpen(Members[i].tag, Members[i])
        /\ Cardinality(DOMAIN res.r.v.m) = DecodedCount

\* the last member decoded under tag t
LastUnder(t) ==
    LET i == CHOOSE i \in 1..DecodedCount :
                /\ Members[i].tag = t
                /\ \A j \in (i + 1)..DecodedCount : Members[j].tag # t
    IN VOpen(t, Members[i])

\* C8: an error of decode_sequence is the call's error and nothing is read;
\* otherwise only the scoped decoder is read, each open value is inserted under
\* its tag, the first failure to decode one more ends the loop, and the call
\* is Ok with the entries inserted before that failure.
C8_MapLoop ==
    IsMapCall =>
        LET s == decode_sequence(d0, res.tag) IN
        IF ~s.r.ok
        THEN res.r = s.r /\ dec = s.d /\ dec.pos = res.pos0
        ELSE /\ res.r.ok
             /\ res.r.v.k = "map"
             /\ DOMAIN res.r.v.m = {Members[i].tag : i \in 1..DecodedCount}
             /\ \A t \in DOMAIN res.r.v.m : res.r.v.m[t] = LastUnder(t)
             /\ dec = s.d /\ dec.pos = res.pos0 + 1

\* a loop ended by a member that cannot be decoded, after one that could
C8_Witness ==
    /\ IsMapCall /\ res.r.ok
    /\ DecodedCount >= 1
    /\ DecodedCount < Len(Members)
    /\ Cardinality(DOMAIN res.r.v.m) = DecodedCount

---------------------------------------------------------------------------
(* Error propagation.                                                      *)

KindOf(base) ==
    CASE base = "unit" -> "null"
      [] base = "bool" -> "bool"
      [] base = "OctetString" -> "octets"
      [] base = "ObjectIdentifier" -> "oid"
      [] base = "BitString" -> "bits"
      [] base = "Utf8String" -> "utf8"
      [] base = "UtcTime" -> "utc"
      [] base = "GeneralizedTime" -> "gen"
      [] base = "Vec" -> "seqof"
      [] base = "Explicit" -> "explicit"
      [] base = "Map" -> "seq"
      [] OTHER -> "int"

\* the first engine operation T::decode_with_tag makes on d, for a base type
FirstOp(base, d, tag) ==
    IF base = "Map" THEN decode_sequence(d, tag).r ELSE decode_leaf(d, KindOf(base), tag).r

\* an engine operation made during the last call returned an error
EngineFailed ==
    /\ res.op = "decode"
    /\ \/ res.ty.wrap # "Option" /\ ~FirstOp(res.ty.base, d0, res.tag).ok
       \/ res.ty.wrap # "Option" /\ res.ty.base = "Map"
       \/ res.ty.wrap = "Option" /\ ~peek_tag(d0).ok
       \/ res.ty.wrap = "Option" /\ TagMatches /\ ~FirstOp(res.ty.base, d0, res.tag).ok
       \/ res.ty.wrap = "Option" /\ TagMatches /\ res.ty.base = "Map"

\* C9 as stated: an error of any engine operation made during a decode call
\* makes the call return an error.
C9_EveryEngineErrorReturned == EngineFailed => ~res.r.ok

\* C9 amended: an error of an engine operation is returned by the enclosing
\* decode call as it is, in every blanket implementation, but for two cases:
\* Option reads a failing peek_tag as an absent value, and the preservation map
\* reads the failure to decode one more open value as the end of its loop.
C9_Propagation ==
    res.op = "decode" =>
        LET op == FirstOp(res.ty.base, d0, res.tag) IN
        /\ (res.ty.wrap # "Option" /\ ~op.ok) => res.r = op
        /\ (res.ty.wrap = "Option" /\ TagMatches /\ ~op.ok) => res.r = op
        /\ (res.ty.wrap = "Option" /\ ~peek_tag(d0).ok) => res.r = Ok(VNone)
        /\ (res.ty.base = "Map" /\ res.ty.wrap # "Option" /\ op.ok) => res.r.ok

\* an Option whose tag matched and whose inner decode failed in the engine
C9_Witness ==
    /\ IsCall("Option") /\ TagMatches
    /\ ~FirstOp(res.ty.base, d0, res.tag).ok
    /\ ~res.r.ok

---------------------------------------------------------------------------
(* The bit-packed encoder (per::enc::Encoder).  output is a BitString      *)
(* whose octets are read most significant bit first.                       *)

\* the eight bits of an octet in the BitString's order
BitsOfByte(b) == [i \in 1..8 |-> (b \div (2 ^ (8 - i))) % 2]

RECURSIVE BitsOfBytes(_)
BitsOfBytes(bytes) ==
    IF bytes = <<>> THEN <<>> ELSE BitsOfByte(Head(bytes)) \o BitsOfBytes(Tail(bytes))

RECURSIVE Reverse(_)
Reverse(q) == IF q = <<>> THEN <<>> ELSE Reverse(Tail(q)) \o <<Head(q)>>

\* a call that ends in todo!()
Panicked == "panic"

\* fn encode_length(&mut self, length: usize) { }
encode_length(out, length) == out

extend_reversed(out, bytes) == out \o BitsOfBytes(Reverse(bytes))

\* fn extend(&mut self, input), the Input::Bytes arm
extend(out, bytes) == out \o BitsOfBytes(bytes)

\* fn encode_any(&mut self, value: &types::Any)
encode_any(out, contents) ==
    [kind |-> "ok", out |-> extend(encode_length(out, Len(contents)), contents)]

encode_bool_as_octet(out, tag, value) ==
    [kind |-> "ok", out |-> out \o BitsOfByte(IF value THEN 255 ELSE 0)]

\* fn encode_bool(&mut self, _: Tag, value: bool)
encode_bool(out, tag, value) ==
    [kind |-> "ok", out |-> Append(out, IF value THEN 1 ELSE 0)]

\* the Encoder methods, and the error constructor, whose body is todo!()
TodoMethods ==
    {"encode_bit_string", "encode_enumerated", "encode_integer", "encode_null",
     "encode_object_identifier", "encode_octet_string", "encode_utf8_string",
     "encode_utc_time", "encode_generalized_time", "encode_sequence_of",
     "encode_set_of", "encode_explicit_prefix", "encode_sequence", "encode_set",
     "Error::custom"}

todo(out) == [kind |-> Panicked, out |-> out]

\* uper::encode(value): todo!()
uper_encode(value) == [kind |-> Panicked, bytes |-> <<>>]

\* uper::decode(input): todo!()
uper_decode(input) == [kind |-> Panicked, b |-> FALSE]

Bytes == {1, 200}
Contents == SeqsUpTo(Bytes, MaxContents)

InitEnc ==
    /\ ptrBits = 64
    /\ dec = [input |-> <<>>, pos |-> 0]
    /\ res = NoDecode
    /\ EncIdle

\* a panic unwinds out of the caller: nothing runs after it
Running == eres.kind # Panicked

EncodeBool(tag, b) ==
    /\ Running /\ Len(calls) < MaxCalls
    /\ LET x == encode_bool(output, tag, b) IN
         /\ output' = x.out
         /\ eres' = [op |-> "encode_bool", kind |-> x.kind, len0 |-> Len(output),
                     tag |-> tag, b |-> b, contents |-> <<>>]
    /\ calls' = Append(calls, [op |-> "bool", b |-> b, contents |-> <<>>])
    /\ UNCHANGED decVars

EncodeAny(contents) ==
    /\ Running /\ Len(calls) < MaxCalls
    /\ LET x == encode_any(output, contents) IN
         /\ output' = x.out
         /\ eres' = [op |-> "encode_any", kind |-> x.kind, len0 |-> Len(output),
                     tag |-> TagNull, b |-> FALSE, contents |-> contents]
    /\ calls' = Append(calls, [op |-> "any", b |-> FALSE, contents |-> contents])
    /\ UNCHANGED decVars

EncodeTodo(method) ==
    /\ Running
    /\ LET x == todo(output) IN
         /\ output' = x.out
         /\ eres' = [op |-> method, kind |-> x.kind, len0 |-> Len(output),
                     tag |-> TagNull, b |-> FALSE, contents |-> <<>>]
    /\ UNCHANGED <<calls, decVars>>

UperEncode(b) ==
    /\ Running
    /\ LET x == uper_encode(b) IN
         eres' = [op |-> "uper::encode", kind |-> x.kind, len0 |-> Len(output),
                  tag |-> TagNull, b |-> b, contents |-> x.bytes]
    /\ UNCHANGED <<output, calls, decVars>>

UperDecode(input) ==
    /\ Running
    /\ LET x == uper_decode(input) IN
         eres' = [op |-> "uper::decode", kind |-> x.kind, len0 |-> Len(output),
                  tag |-> TagNull, b |-> x.b, contents |-> input]
    /\ UNCHANGED <<output, calls, decVars>>

NextEnc ==
    \/ \E t \in {TagBool, TagCtx0}, b \in BOOLEAN : EncodeBool(t, b)
    \/ \E c \in Contents : EncodeAny(c)
    \/ \E m \in TodoMethods : EncodeTodo(m)
    \/ \E b \in BOOLEAN : UperEncode(b)
    \/ \E c \in Contents : UperDecode(c)

SpecEnc == InitEnc /\ [][NextEnc]_vars

---------------------------------------------------------------------------
(* Properties of the encode side.                                          *)

\* C2 as stated: uper::encode(&v) is Ok(bytes) and uper::decode(bytes) is
\* Ok(v') with v' = v, for every supported value v (here the booleans).
C2_RoundTrip ==
    eres.op = "uper::encode" =>
        /\ eres.kind = "ok"
        /\ LET back == uper_decode(eres.contents) IN
              back.kind = "ok" /\ back.b = eres.b

\* C4 as stated: every operation of the encoder and of the entry points ends
\* with a success value or a typed error, never with a panic.
C4_NoFault == eres.kind \in {"ok", "err"}

\* C5: encode_bool returns Ok and makes the output one bit longer, whatever the
\* tag; the new last bit is 1 for true and 0 for false.
C5_BoolOneBit ==
    eres.op = "encode_bool" =>
        /\ eres.kind = "ok"
        /\ Len(output) = eres.len0 + 1
        /\ output[Len(output)] = (IF eres.b THEN 1 ELSE 0)

\* true under a context tag, written after earlier output
C5_Witness ==
    /\ eres.op = "encode_bool" /\ eres.b /\ eres.tag = TagCtx0
    /\ eres.len0 > 0
    /\ output[Len(output)] = 1

\* C7 as stated: encode_any writes a non-empty length prefix in front of the
\* content octets, so the output grows by more than 8 bits per octet.
C7_LengthPrefixed ==
    eres.op = "encode_any" => Len(output) > eres.len0 + 8 * Len(eres.contents)

IsPrefix(p, q) == Len(p) <= Len(q) /\ SubSeq(q, 1, Len(p)) = p

\* what one call adds: one bit for a boolean, the octets in order for an Any
Contribution(c) ==
    IF c.op = "bool" THEN <<IF c.b THEN 1 ELSE 0>>
    ELSE [i \in 1..(8 * Len(c.contents)) |->
            BitsOfByte(c.contents[((i - 1) \div 8) + 1])[((i - 1) % 8) + 1]]

RECURSIVE Concatenation(_)
Concatenation(cs) ==
    IF cs = <<>> THEN <<>>
    ELSE Concatenation(SubSeq(cs, 1, Len(cs) - 1)) \o Contribution(cs[Len(cs)])

\* C10: every call keeps the bits already written as a prefix of the output,
\* and the output is the concatenation, in call order, of what each
\* encode_bool and encode_any call adds.
C10_AppendOnly ==
    /\ [](output = Concatenation(calls))
    /\ [][IsPrefix(output, output')]_vars

\* a boolean, then two octets, then a boolean
C10_Witness ==
    /\ Len(calls) = 3
    /\ calls[1].op = "bool" /\ calls[2].op = "any" /\ calls[3].op = "bool"
    /\ calls[2].contents = <<1, 200>>
    /\ Len(output) = 18

====
